---- MODULE Spec2Model ----
(* Model of src/streamlit_app.py: a Streamlit script that opens a HeyGen    *)
(* streaming-avatar session (streaming.new -> streaming.create_token ->     *)
(* settle -> viewer), records and transcribes microphone audio and echoes   *)
(* text to the session (streaming.task).  Streamlit re-runs the whole       *)
(* script on every UI event; st.session_state (ss) survives between runs,   *)
(* script locals do not.  One run is modelled as a sequence of steps, one   *)
(* per remote call / script section, with pc the position in the script.    *)
EXTENDS Integers, Sequences, FiniteSets, TLC

(***************************************************************************)
(* Bounds                                                                  *)
(***************************************************************************)
MaxSessions == 2   \* sessions the remote service creates in one behaviour
MaxTextLen  == 1   \* longest text the user types or the recogniser returns

(***************************************************************************)
(* Python values.  A JSON/Python value is a tagged record; a dict is a set *)
(* of <<key, value>> pairs.                                                *)
(***************************************************************************)
None      == [kind |-> "none"]
Str(s)    == [kind |-> "str",  val |-> s]
List(xs)  == [kind |-> "list", val |-> xs]
Dict(kvs) == [kind |-> "dict", val |-> kvs]
Sid(n)    == [kind |-> "sid",   n |-> n]      \* opaque server-assigned session id
Tok(n)    == [kind |-> "token", n |-> n]      \* opaque token issued for session n
Bytes(b)  == [kind |-> "bytes", val |-> b]    \* recorded audio; b"" is Bytes(<<>>)
Sdp(n)    == [kind |-> "sdp",   n |-> n]      \* the descriptor the service generates for session n

\* Python truthiness: None, "", b"", [] and {} are falsy
Truthy(v) ==
    CASE v.kind = "none" -> FALSE
      [] v.kind = "str"  -> v.val # ""
      [] v.kind = "list" -> v.val # <<>>
      [] v.kind = "bytes" -> v.val # <<>>
      [] v.kind = "dict" -> v.val # {}
      [] OTHER           -> TRUE

\* Python `a or b`
Or(a, b) == IF Truthy(a) THEN a ELSE b

\* dict.get(k): the value under k, None when the key is absent
Get(d, k) ==
    IF \E p \in d.val : p[1] = k
    THEN (CHOOSE p \in d.val : p[1] = k)[2]
    ELSE None

(***************************************************************************)
(* Texts are sequences of characters; " " is whitespace.                   *)
(***************************************************************************)
Chars == {" ", "a"}
Texts == UNION {[1..n -> Chars] : n \in 0..MaxTextLen}

RECURSIVE LStrip(_)
LStrip(t) == IF t # <<>> /\ Head(t) = " " THEN LStrip(Tail(t)) ELSE t

RECURSIVE RStrip(_)
RStrip(t) == IF t # <<>> /\ t[Len(t)] = " " THEN RStrip(SubSeq(t, 1, Len(t) - 1)) ELSE t

\* str.strip()
Strip(t) == RStrip(LStrip(t))

DEFAULT_TRANSCRIPT_HINT == <<"Hello, ok to record the message ...">>
FALLBACK_TEXT           == <<"Thanks! (audio captured)">>
TEST1_TEXT              == <<"Hello. Welcome to the test demonstration.">>

(***************************************************************************)
(* The default relay entry                                                 *)
(***************************************************************************)
DEFAULT_ICE == <<"stun:stun.l.google.com:19302">>

VARIABLES
    api_key,        \* HEYGEN_API_KEY is configured
    has_mic,        \* _HAS_MIC
    has_fwhisper,   \* _HAS_FWHISPER
    ss,             \* st.session_state: session_id, session_token, offer_sdp, rtc_config, last_text
    pc,             \* position of the running script; "idle" between runs
    event,          \* the button that returns True in the current run, or none
    loc,            \* locals of the Start handler: sid, offer_sdp, rtc_config, tok
    calls,          \* requests and sleeps of the current run, in order
    resp,           \* body of the streaming.new response new_session is parsing
    next_sid,       \* remote service: the id of the next session it creates
    settled,        \* per session number, the completed 1.0 s settle sleeps
    attempt,        \* outcome of the latest Start handler: none, running, failed, ready
    viewer,         \* what the viewer area shows, and the token embedded in it
    shown,          \* widgets rendered by the latest run
    audio,          \* value of the mic_recorder component
    ta,             \* the transcript text_area widget: value parameter and current content
    sent,           \* outcome of the latest send_echo: none, ok, failed
    stt,            \* what the transcription block of the current run did with the clip
    unstopped       \* remote service: the sessions it created that no stop request has named

vars == <<api_key, has_mic, has_fwhisper, ss, pc, event, loc, calls, resp,
          next_sid, settled, attempt, viewer, shown, audio, ta, sent, stt,
          unstopped>>

config == <<api_key, has_mic, has_fwhisper>>


(***************************************************************************)
(* HTTP.  requests.post either raises (transport error), returns a status  *)
(* >= 400 (raise_for_status raises) or returns a status < 400 with a body. *)
(***************************************************************************)
Statuses == {"ok", "http_error", "transport_error"}

\* _post_xapi / _post_bearer: the call returns its body iff the status is below 400
PostRaises(status) == status # "ok"

\* an entry of calls
Call(op, auth, token, sid, text, status) ==
    [op |-> op, auth |-> auth, token |-> token, sid |-> sid, text |-> text, status |-> status]

Sleep(secs) == Call("sleep", secs, None, None, <<>>, "ok")

(***************************************************************************)
(* streaming.new responses                                                 *)
(***************************************************************************)
OfferVals == {None, Dict({}), Dict({<<"type", Str("offer")>>}), Dict({<<"sdp", Str("")>>}),
              Dict({<<"sdp", Str("o1")>>}), Dict({<<"sdp", Str("o2")>>})}

IceVals == {None, Str("none"), List(<<>>), List(<<"turn:a">>), List(<<"turn:b">>)}

\* a JSON object: keys with no value are absent
Obj(kvs) == Dict({p \in kvs : p[2] # None})

\* bodies of a streaming.new response with the session id among sids
NewBodiesOver(sids, offers, sdps, ices2, ices1) ==
    {Dict({<<"_raw", Str("<html>")>>})} \cup
    {Obj({<<"data", Obj({<<"session_id", s>>, <<"offer", o>>, <<"sdp", d>>,
                         <<"ice_servers2", i2>>, <<"ice_servers", i1>>})>>}) :
        s \in sids, o \in offers, d \in sdps, i2 \in ices2, i1 \in ices1}

\* every body for session number n
NewBodies(n) == NewBodiesOver({None, Str(""), Sid(n)}, OfferVals, OfferVals, IceVals, IceVals)

\* the relay list the service allocates to session n: n entries, so that the
\* lists of two sessions differ
Relays(n, url) == List([i \in 1..n |-> url])

\* the bodies the Start handler is run against: no JSON, no session id, a session
\* id without a descriptor, and a session id with each combination of the
\* alternate keys, with and without relays; the descriptor and the relays are
\* those of session n
StartBodies(n) ==
    NewBodiesOver({None, Str("")}, {Dict({<<"sdp", Sdp(n)>>})}, {None}, {None}, {None}) \cup
    NewBodiesOver({Sid(n)},
                  {None, Dict({<<"type", Str("offer")>>})},
                  {None, Dict({<<"sdp", Str("")>>})},
                  {None}, {None}) \cup
    NewBodiesOver({Sid(n)},
                  {None, Dict({<<"sdp", Sdp(n)>>})},
                  {None, Dict({<<"sdp", Sdp(n)>>})},
                  {None, Relays(n, "turn:a")},
                  {None})

\* body.get("data") or {}
DataOf(body) == Or(Get(body, "data"), Dict({}))

\* new_session: sid
SessionIdOf(body) == Get(DataOf(body), "session_id")

\* new_session: offer_sdp = (data.get("offer") or data.get("sdp") or {}).get("sdp")
OfferSdpOf(body) ==
    Get(Or(Or(Get(DataOf(body), "offer"), Get(DataOf(body), "sdp")), Dict({})), "sdp")

IsNonEmptyList(v) == v.kind = "list" /\ v.val # <<>>

\* rtc_config without the test that the lists are non-empty
RtcConfigOf_AnyList(body) ==
    LET ice2 == Get(DataOf(body), "ice_servers2")
        ice1 == Get(DataOf(body), "ice_servers")
    IN  IF ice2.kind = "list" THEN Dict({<<"iceServers", ice2>>})
        ELSE IF ice1.kind = "list" THEN Dict({<<"iceServers", ice1>>})
        ELSE Dict({<<"iceServers", List(DEFAULT_ICE)>>})

\* new_session: rtc_config
RtcConfigOf(body) ==
    LET ice2 == Get(DataOf(body), "ice_servers2")
        ice1 == Get(DataOf(body), "ice_servers")
    IN  IF IsNonEmptyList(ice2) THEN Dict({<<"iceServers", ice2>>})
        ELSE IF IsNonEmptyList(ice1) THEN Dict({<<"iceServers", ice1>>})
        ELSE Dict({<<"iceServers", List(DEFAULT_ICE)>>})

\* new_session: the returned dict
NewSessionResult(body) ==
    [sid |-> SessionIdOf(body), offer_sdp |-> OfferSdpOf(body),
     rtc_config |-> RtcConfigOf(body), tok |-> None]

\* new_session checking the session id only
NewSessionRaises_SidOnly(body) == ~Truthy(SessionIdOf(body))

\* new_session: raise RuntimeError("Missing session_id or offer in response")
NewSessionRaises(body) == ~Truthy(SessionIdOf(body)) \/ ~Truthy(OfferSdpOf(body))

(***************************************************************************)
(* streaming.create_token responses                                        *)
(***************************************************************************)
TokenBodies(n) ==
    {Dict({<<"_raw", Str("<html>")>>})} \cup
    {Obj({<<"data", Obj({<<"token", t>>, <<"access_token", a>>})>>}) :
        t \in {None, Str(""), Tok(n)}, a \in {None, Str(""), Tok(n)}}

\* create_session_token: tok
TokenOf(body) == Or(Get(DataOf(body), "token"), Get(DataOf(body), "access_token"))

\* create_session_token without the check of tok
CreateTokenRaises_Never(body) == FALSE

\* create_session_token: raise RuntimeError("Missing token in response")
CreateTokenRaises(body) == ~Truthy(TokenOf(body))

(***************************************************************************)
(* Microphone component values and the recogniser                          *)
(***************************************************************************)
\* a WAV clip: the header followed by what was said
Wav(t) == <<"RIFF">> \o t

\* what the recorded clips contain: silence, or a word and a pause
Utterances == {<<>>, <<"a", " ">>}

\* values of the mic_recorder component after a recording
AudioVals ==
    {Dict({<<"bytes", Bytes(Wav(t))>>}) : t \in Utterances} \cup
    {Dict({<<"bytes", Bytes(<<>>)>>}), Bytes(Wav(<<"a">>)), Str("?")}

\* lines 250-273: wav_bytes
WavBytesOf(a) ==
    IF ~has_mic \/ a = None THEN None
    ELSE IF a.kind = "dict" /\ (\E p \in a.val : p[1] = "bytes") THEN Get(a, "bytes")
    ELSE IF a.kind = "bytes" THEN a
    ELSE None

\* the try/except of lines 281-290 letting the backend's exception through
TranscribeRaises_Propagates(raised) == raised

\* lines 281-290: an exception of the backend is caught and logged
TranscribeRaises(raised) == FALSE

\* lines 280-295: what the block did: "no_backend" (faster-whisper not installed),
\* "backend_error" (it raised), "empty_text" (it returned no text), "text"
TranscribeOutcome(wav, raised) ==
    IF ~has_fwhisper THEN "no_backend"
    ELSE IF raised THEN "backend_error"
    ELSE IF Strip(Tail(wav.val)) = <<>> THEN "empty_text"
    ELSE "text"

\* lines 280-295: the text for a clip; raised: the backend raised
TranscribeText(wav, raised) ==
    LET heard == IF has_fwhisper /\ ~raised THEN Strip(Tail(wav.val)) ELSE <<>>
    IN  IF heard = <<>> THEN FALLBACK_TEXT ELSE heard

(***************************************************************************)
(* State                                                                   *)
(***************************************************************************)
NoLoc    == [sid |-> None, offer_sdp |-> None, rtc_config |-> None, tok |-> None]
NoViewer == [mode |-> "none", token |-> None, session_id |-> None]

Init ==
    /\ api_key \in BOOLEAN
    /\ has_mic \in BOOLEAN
    /\ has_fwhisper \in BOOLEAN
    /\ ss = [session_id |-> None, session_token |-> None, offer_sdp |-> None,
             rtc_config |-> None, last_text |-> <<>>]
    /\ pc = "idle"
    /\ event = "none"
    /\ loc = NoLoc
    /\ calls = <<>>
    /\ resp = None
    /\ next_sid = 1
    /\ settled = [n \in 1..MaxSessions |-> 0]
    /\ attempt = "none"
    /\ viewer = NoViewer
    /\ shown = {}
    /\ audio = None
    /\ ta = [exists |-> FALSE, param |-> <<>>, state |-> <<>>]
    /\ sent = "none"
    /\ stt = "none"
    /\ unstopped = {}

\* line 197: if ss.session_id and ss.session_token
HasStoredSession == Truthy(ss.session_id) /\ Truthy(ss.session_token)

\* lines 217, 316, 322: ss.session_id and ss.session_token and ss.offer_sdp
ReadyGuard == Truthy(ss.session_id) /\ Truthy(ss.session_token) /\ Truthy(ss.offer_sdp)

(***************************************************************************)
(* Lines 213-309: the viewer area, the recorder, the transcription of its  *)
(* clip and the transcript box.  No remote call is made here.              *)
(***************************************************************************)
\* lines 214-243: the live viewer or the static preview; exists: viewer_path.exists()
ViewerOf(exists) ==
    IF ReadyGuard /\ exists
    THEN [mode |-> "live", token |-> ss.session_token, session_id |-> ss.session_id]
    ELSE [mode |-> "preview", token |-> None, session_id |-> None]

\* lines 305-306: the preload of the hint
Preload(t) == IF Strip(t) = <<>> THEN DEFAULT_TRANSCRIPT_HINT ELSE t

\* lines 300-309: st.text_area has no key, so its identity is its parameters: with
\* the same value parameter it returns its current content (box.state), with
\* another value it is a new widget that returns that value
TranscriptBox(box, text) ==
    LET v == Preload(text)
    IN  IF box.exists /\ box.param = v
        THEN ss' = [ss EXCEPT !.last_text = box.state] /\ ta' = box
        ELSE /\ ta' = [exists |-> TRUE, param |-> v, state |-> v]
             /\ ss' = [ss EXCEPT !.last_text = v]

\* the widgets on the page once the transcript box is rendered
PageWidgets == {"start_btn", "transcript"} \cup (IF has_mic THEN {"mic_recorder"} ELSE {})

\* lines 213-309 with the transcript box holding box and the recorder holding clip
PageRender(box, clip) ==
    /\ \E exists \in BOOLEAN : viewer' = ViewerOf(exists)
    /\ LET wav_bytes == WavBytesOf(clip)
       IN  IF Truthy(wav_bytes)
           THEN \E raised \in (IF has_fwhisper THEN BOOLEAN ELSE {FALSE}) :
                  IF TranscribeRaises(raised)
                  THEN /\ stt' = "raised"
                       /\ ta' = [exists |-> FALSE, param |-> <<>>, state |-> <<>>]
                       /\ UNCHANGED ss
                  ELSE /\ stt' = TranscribeOutcome(wav_bytes, raised)
                       /\ TranscriptBox(box, TranscribeText(wav_bytes, raised))
           ELSE /\ stt' = "no_clip"
                /\ TranscriptBox(box, ss.last_text)

\* the widgets on the page and the next position after lines 213-309: an
\* uncaught exception in them ends the run before the transcript box
ShownAfterPage(widgets) == IF stt' = "raised" THEN PageWidgets \ {"transcript"} ELSE widgets

PcAfterPage(next) == IF stt' = "raised" THEN "end" ELSE next

(***************************************************************************)
(* A UI event starts a run of the script.                                  *)
(***************************************************************************)
\* the key check reporting the error without st.stop(): the script goes on
Halt_NoStop ==
    /\ pc = "idle"
    /\ ~api_key
    /\ PageRender(ta, audio)
    /\ shown' = ShownAfterPage(PageWidgets \cup {"test1", "test2"})
    /\ pc' = "end"
    /\ UNCHANGED <<config, unstopped, event, loc, calls, resp, next_sid, settled, attempt, audio, sent>>

\* lines 89-95: without an API key every run halts at st.stop()
Halt ==
    /\ pc = "idle"
    /\ ~api_key
    /\ pc' = "end"
    /\ shown' = {}
    /\ UNCHANGED <<config, unstopped, stt, ss, event, loc, calls, resp, next_sid, settled, attempt, viewer,
                   audio, ta, sent>>

\* a run in which no button returns True: the whole script, lines 1-330
WidgetRun(box, clip) ==
    /\ pc = "idle"
    /\ api_key
    /\ PageRender(box, clip)
    /\ shown' = ShownAfterPage(PageWidgets \cup {"test1", "test2"})
    /\ pc' = "end"
    /\ UNCHANGED <<config, unstopped, event, loc, calls, resp, next_sid, settled, attempt, sent>>

\* page load, or the Rerun command
Rerun == WidgetRun(ta, audio) /\ UNCHANGED audio

\* the user edits the transcript box
EditTranscript ==
    /\ "transcript" \in shown
    /\ \E t \in Texts : t # ta.state /\ WidgetRun([ta EXCEPT !.state = t], audio)
    /\ UNCHANGED audio

\* the user records a clip and presses Stop
Record ==
    /\ "mic_recorder" \in shown
    /\ \E a \in AudioVals : audio' = a /\ WidgetRun(ta, a)

\* Test-1 or Test-2 is pressed: lines 1-313 run, then the handler
ClickTest(btn) ==
    /\ pc = "idle"
    /\ btn \in shown
    /\ event' = btn
    /\ PageRender(ta, audio)
    /\ shown' = ShownAfterPage(PageWidgets)
    /\ pc' = PcAfterPage("actions")
    /\ UNCHANGED <<config, unstopped, loc, calls, resp, next_sid, settled, attempt, audio, sent>>

ClickTest1 == ClickTest("test1")

ClickTest2 == ClickTest("test2")

\* Start is pressed: line 196
ClickStart ==
    /\ pc = "idle"
    /\ "start_btn" \in shown
    /\ event' = "start_btn"
    /\ attempt' = "running"
    /\ shown' = {"start_btn"}
    /\ pc' = "start"
    /\ UNCHANGED <<config, unstopped, stt, ss, loc, calls, resp, next_sid, settled, viewer, audio, ta, sent>>

(***************************************************************************)
(* The Start handler, lines 196-208.  An exception ends the run.           *)
(***************************************************************************)
StartAborts ==
    /\ pc' = "end"
    /\ attempt' = "failed"
    /\ loc' = NoLoc

\* stop_session without the try/except
StopSessionRaises_Propagates(status) == PostRaises(status)

\* stop_session, lines 178-180: the exception of the request is swallowed
StopSessionRaises(status) == FALSE

\* the service once a stop request has named sid
StopRequested(sid) == IF sid.kind = "sid" THEN unstopped \ {sid.n} ELSE unstopped

\* StartStopOld without the stop request
StartStopOld_NoStop ==
    /\ pc = "start"
    /\ HasStoredSession
    /\ pc' = "new"
    /\ UNCHANGED <<config, unstopped, stt, ss, event, loc, calls, resp, next_sid, settled, attempt, viewer,
                   shown, audio, ta, sent>>

\* lines 197-198
StartStopOld ==
    /\ pc = "start"
    /\ HasStoredSession
    /\ \E st \in Statuses :
         IF StopSessionRaises(st)
         THEN /\ calls' = Append(calls, Call("streaming.stop", "bearer", ss.session_token,
                                             ss.session_id, <<>>, st))
              /\ StartAborts
         ELSE /\ calls' = calls \o <<Call("streaming.stop", "bearer", ss.session_token,
                                          ss.session_id, <<>>, st), Sleep("0.2")>>
              /\ pc' = "new"
              /\ UNCHANGED <<attempt, loc>>
    /\ unstopped' = StopRequested(ss.session_id)
    /\ UNCHANGED <<config, stt, ss, event, resp, next_sid, settled, viewer, shown, audio, ta, sent>>

StartNoOld ==
    /\ pc = "start"
    /\ ~HasStoredSession
    /\ pc' = "new"
    /\ UNCHANGED <<config, unstopped, stt, ss, event, loc, calls, resp, next_sid, settled, attempt, viewer,
                   shown, audio, ta, sent>>

\* the bodies the service can answer streaming.new with
ServedNewBodies ==
    {b \in StartBodies(next_sid) : SessionIdOf(b) = Sid(next_sid) => next_sid <= MaxSessions}

\* the service once it has answered streaming.new with body: the session counts
\* as created when the body carries its id and new_session accepts the body
Created(body) ==
    IF SessionIdOf(body) = Sid(next_sid) /\ ~NewSessionRaises(body)
    THEN unstopped \cup {next_sid}
    ELSE unstopped

\* lines 199-201 and new_session, lines 149-161
StartNew ==
    /\ pc = "new"
    /\ \E st \in Statuses :
         /\ calls' = Append(calls, Call("streaming.new", "x-api-key", None, None, <<>>, st))
         /\ IF PostRaises(st)
            THEN StartAborts /\ UNCHANGED <<resp, next_sid, unstopped>>
            ELSE \E body \in ServedNewBodies :
                   /\ resp' = body
                   /\ unstopped' = Created(body)
                   /\ next_sid' = IF SessionIdOf(body) = Sid(next_sid)
                                  THEN next_sid + 1 ELSE next_sid
                   /\ IF NewSessionRaises(body)
                      THEN StartAborts
                      ELSE /\ loc' = NewSessionResult(body)
                           /\ pc' = "token"
                           /\ UNCHANGED attempt
    /\ UNCHANGED <<config, stt, ss, event, settled, viewer, shown, audio, ta, sent>>

\* the bodies the service can answer streaming.create_token with: a token only
\* for a session it created
ServedTokenBodies(sid) ==
    IF sid.kind = "sid" THEN TokenBodies(sid.n) ELSE {Dict({<<"_raw", Str("<html>")>>})}

\* lines 202-203 and create_session_token, lines 163-167
StartToken ==
    /\ pc = "token"
    /\ \E st \in Statuses :
         /\ calls' = Append(calls, Call("streaming.create_token", "x-api-key", None,
                                        loc.sid, <<>>, st))
         /\ IF PostRaises(st)
            THEN StartAborts
            ELSE \E body \in ServedTokenBodies(loc.sid) :
                   IF CreateTokenRaises(body)
                   THEN StartAborts
                   ELSE /\ loc' = [loc EXCEPT !.tok = TokenOf(body)]
                        /\ pc' = "settle"
                        /\ UNCHANGED attempt
    /\ resp' = None
    /\ UNCHANGED <<config, unstopped, stt, ss, event, next_sid, settled, viewer, shown, audio, ta, sent>>

\* StartSettle without the sleep
StartSettle_NoSleep ==
    /\ pc = "settle"
    /\ pc' = "store"
    /\ UNCHANGED <<config, unstopped, stt, ss, event, loc, calls, resp, next_sid, settled, attempt, viewer,
                   shown, audio, ta, sent>>

\* lines 204-205: time.sleep(1.0)
StartSettle ==
    /\ pc = "settle"
    /\ calls' = Append(calls, Sleep("1.0"))
    /\ settled' = [settled EXCEPT ![loc.sid.n] = @ + 1]
    /\ pc' = "store"
    /\ UNCHANGED <<config, unstopped, stt, ss, event, loc, resp, next_sid, attempt, viewer, shown, audio, ta,
                   sent>>

\* the store keeping a token that is already stored
StartStore_KeepsToken ==
    /\ pc = "store"
    /\ ss' = [ss EXCEPT !.session_id = loc.sid, !.session_token = Or(ss.session_token, loc.tok),
                        !.offer_sdp = loc.offer_sdp, !.rtc_config = loc.rtc_config]
    /\ attempt' = "ready"
    /\ pc' = "page"
    /\ UNCHANGED <<config, unstopped, stt, event, loc, calls, resp, next_sid, settled, viewer, shown, audio,
                   ta, sent>>

\* lines 206-208
StartStore ==
    /\ pc = "store"
    /\ ss' = [ss EXCEPT !.session_id = loc.sid, !.session_token = loc.tok,
                        !.offer_sdp = loc.offer_sdp, !.rtc_config = loc.rtc_config]
    /\ attempt' = "ready"
    /\ pc' = "page"
    /\ UNCHANGED <<config, unstopped, stt, event, loc, calls, resp, next_sid, settled, viewer, shown, audio, ta, sent>>

\* lines 209-313 after the Start handler
Page ==
    /\ pc = "page"
    /\ PageRender(ta, audio)
    /\ shown' = ShownAfterPage(PageWidgets)
    /\ pc' = PcAfterPage("actions")
    /\ UNCHANGED <<config, unstopped, event, loc, calls, resp, next_sid, settled, attempt, audio, sent>>

(***************************************************************************)
(* Lines 311-330: the Test buttons                                         *)
(***************************************************************************)
\* send_echo that falls back to the shared-key header on a second route
SendEcho_Fallback(text, rendered) ==
    \E st \in Statuses, st2 \in Statuses :
      LET bearer == Call("streaming.task", "bearer", ss.session_token, ss.session_id,
                         text, st)
          legacy == Call("streaming.input", "x-api-key", None, ss.session_id, text, st2)
          raises == PostRaises(st) /\ PostRaises(st2)
      IN  /\ calls' = IF PostRaises(st) THEN calls \o <<bearer, legacy>>
                      ELSE Append(calls, bearer)
          /\ sent' = IF raises THEN "failed" ELSE "ok"
          /\ shown' = shown \cup (IF raises THEN rendered ELSE {"test1", "test2"})
          /\ UNCHANGED ss

\* send_echo that sends the request again when it fails
SendEcho_Retry(text, rendered) ==
    \E st \in Statuses, st2 \in Statuses :
      LET first == Call("streaming.task", "bearer", ss.session_token, ss.session_id, text, st)
          again == Call("streaming.task", "bearer", ss.session_token, ss.session_id, text, st2)
          raises == PostRaises(st) /\ PostRaises(st2)
      IN  /\ calls' = IF PostRaises(st) THEN calls \o <<first, again>> ELSE Append(calls, first)
          /\ sent' = IF raises THEN "failed" ELSE "ok"
          /\ shown' = shown \cup (IF raises THEN rendered ELSE {"test1", "test2"})
          /\ UNCHANGED ss

\* send_echo that drops the stored session when the request fails
SendEcho_Invalidates(text, rendered) ==
    \E st \in Statuses :
      /\ calls' = Append(calls, Call("streaming.task", "bearer", ss.session_token,
                                     ss.session_id, text, st))
      /\ sent' = IF PostRaises(st) THEN "failed" ELSE "ok"
      /\ shown' = shown \cup (IF PostRaises(st) THEN rendered ELSE {"test1", "test2"})
      /\ ss' = IF PostRaises(st)
               THEN [ss EXCEPT !.session_id = None, !.session_token = None,
                               !.offer_sdp = None, !.rtc_config = None]
               ELSE ss

\* send_echo, lines 169-176: one bearer request; its exception ends the run
\* with only the buttons in rendered on the page
SendEcho(text, rendered) ==
    \E st \in Statuses :
      /\ calls' = Append(calls, Call("streaming.task", "bearer", ss.session_token,
                                     ss.session_id, text, st))
      /\ sent' = IF PostRaises(st) THEN "failed" ELSE "ok"
      /\ shown' = shown \cup (IF PostRaises(st) THEN rendered ELSE {"test1", "test2"})
      /\ UNCHANGED ss

NoEcho ==
    /\ shown' = shown \cup {"test1", "test2"}
    /\ UNCHANGED <<ss, calls, sent>>

\* the transcript test without the strip
TranscriptBlank_NoStrip == ss.last_text = <<>>

\* line 324: not (ss.last_text or "").strip()
TranscriptBlank == Strip(ss.last_text) = <<>>

\* lines 315-319
ActTest1 ==
    /\ pc = "actions" /\ event = "test1"
    /\ IF ~ReadyGuard THEN NoEcho ELSE SendEcho(TEST1_TEXT, {"test1"})
    /\ pc' = "end"
    /\ UNCHANGED <<config, unstopped, stt, event, loc, resp, next_sid, settled, attempt, viewer, audio, ta>>

\* lines 321-327
ActTest2 ==
    /\ pc = "actions" /\ event = "test2"
    /\ IF ~ReadyGuard THEN NoEcho
       ELSE IF TranscriptBlank THEN NoEcho
       ELSE SendEcho(Strip(ss.last_text), {"test1", "test2"})
    /\ pc' = "end"
    /\ UNCHANGED <<config, unstopped, stt, event, loc, resp, next_sid, settled, attempt, viewer, audio, ta>>

\* lines 311-330 when neither Test button returns True
ActNone ==
    /\ pc = "actions" /\ event \notin {"test1", "test2"}
    /\ NoEcho
    /\ pc' = "end"
    /\ UNCHANGED <<config, unstopped, stt, event, loc, resp, next_sid, settled, attempt, viewer, audio, ta>>

\* the run is over: the script's locals are gone, ss and the widgets stay
EndRun ==
    /\ pc = "end"
    /\ pc' = "idle"
    /\ event' = "none"
    /\ loc' = NoLoc
    /\ calls' = <<>>
    /\ attempt' = "none"
    /\ sent' = "none"
    /\ resp' = None
    /\ viewer' = NoViewer
    /\ stt' = "none"
    /\ UNCHANGED <<config, unstopped, ss, next_sid, settled, shown, audio, ta>>

Next ==
    \/ Halt
    \/ Rerun
    \/ EditTranscript
    \/ Record
    \/ ClickTest1
    \/ ClickTest2
    \/ ClickStart
    \/ StartStopOld
    \/ StartNoOld
    \/ StartNew
    \/ StartToken
    \/ StartSettle
    \/ StartStore
    \/ Page
    \/ ActTest1
    \/ ActTest2
    \/ ActNone
    \/ EndRun

Spec == Init /\ [][Next]_vars

(***************************************************************************)
(* new_session on its own: every response body, parsed once                *)
(***************************************************************************)
InitNewSession ==
    /\ api_key = TRUE
    /\ has_mic = FALSE
    /\ has_fwhisper = FALSE
    /\ ss = [session_id |-> None, session_token |-> None, offer_sdp |-> None,
             rtc_config |-> None, last_text |-> <<>>]
    /\ pc = "new_session"
    /\ event = "start_btn"
    /\ loc = NoLoc
    /\ calls = <<>>
    /\ resp \in NewBodies(1)
    /\ next_sid = 2
    /\ settled = [n \in 1..MaxSessions |-> 0]
    /\ attempt = "running"
    /\ viewer = NoViewer
    /\ shown = {"start_btn"}
    /\ audio = None
    /\ ta = [exists |-> FALSE, param |-> <<>>, state |-> <<>>]
    /\ sent = "none"
    /\ stt = "none"
    /\ unstopped = {}

\* new_session, lines 153-161, on the body resp
NewSessionCall ==
    /\ pc = "new_session"
    /\ IF NewSessionRaises(resp)
       THEN pc' = "raised" /\ loc' = NoLoc
       ELSE pc' = "returned" /\ loc' = NewSessionResult(resp)
    /\ UNCHANGED <<config, unstopped, stt, ss, event, calls, resp, next_sid, settled, attempt, viewer, shown,
                   audio, ta, sent>>

NextNewSession == NewSessionCall

SpecNewSession == InitNewSession /\ [][NextNewSession]_vars

TypeOK ==
    /\ pc \in {"idle", "start", "new", "token", "settle", "store", "page", "actions", "end",
               "new_session", "raised", "returned"}
    /\ event \in {"none", "start_btn", "test1", "test2"}
    /\ next_sid \in 1..(MaxSessions + 1)
    /\ attempt \in {"none", "running", "failed", "ready"}
    /\ sent \in {"none", "ok", "failed"}
    /\ shown \subseteq {"start_btn", "mic_recorder", "transcript", "test1", "test2"}
    /\ stt \in {"none", "no_clip", "no_backend", "backend_error", "empty_text", "text"}
    /\ unstopped \subseteq 1..MaxSessions

(***************************************************************************)
(* Properties                                                              *)
(***************************************************************************)
\* the request or sleep this step adds to calls
Issued(op) == Len(calls') > Len(calls) /\ calls'[Len(calls) + 1].op = op

\* the session fields of st.session_state
SessionFields(state) ==
    <<state.session_id, state.session_token, state.offer_sdp, state.rtc_config>>

\* a session is stored as Ready
StoredReady == Truthy(ss.session_id) /\ Truthy(ss.session_token)

\* C1: streaming.new is issued while a session is stored as Ready only after a
\* streaming.stop request for that session, with its token, was issued in the same run
C1_StopBeforeNew ==
    [][(Issued("streaming.new") /\ StoredReady)
         => \E j \in DOMAIN calls :
              /\ calls[j].op = "streaming.stop"
              /\ calls[j].sid = ss.session_id
              /\ calls[j].token = ss.session_token]_vars

\* a Start on a stored session: its stop request, then its create request
C1_Witness ==
    /\ pc = "token"
    /\ StoredReady
    /\ \E j, i \in DOMAIN calls :
         /\ j < i
         /\ calls[j].op = "streaming.stop" /\ calls[j].sid = ss.session_id
         /\ calls[i].op = "streaming.new"

\* C2: the token request is issued only right after a create request that succeeded
\* (status below 400, session id and descriptor extracted) and names that session;
\* the session fields are stored only after a token request that succeeded, and
\* after the settle sleep that follows it
C2_CreateTokenReady ==
    [][/\ Issued("streaming.create_token")
            => /\ calls # <<>>
               /\ calls[Len(calls)].op = "streaming.new"
               /\ calls[Len(calls)].status = "ok"
               /\ Truthy(loc.sid) /\ Truthy(loc.offer_sdp)
               /\ calls'[Len(calls')].sid = loc.sid
       /\ SessionFields(ss') # SessionFields(ss)
            => /\ Len(calls) >= 3
               /\ calls[Len(calls) - 2].op = "streaming.new"
               /\ calls[Len(calls) - 2].status = "ok"
               /\ calls[Len(calls) - 1].op = "streaming.create_token"
               /\ calls[Len(calls) - 1].status = "ok"
               /\ calls[Len(calls) - 1].sid = ss'.session_id
               /\ calls[Len(calls)] = Sleep("1.0")
               /\ Truthy(ss'.session_id) /\ Truthy(ss'.session_token)
               /\ Truthy(ss'.offer_sdp)
               /\ attempt' = "ready"]_vars

\* a Start that reached Ready
C2_Witness ==
    /\ pc = "page"
    /\ attempt = "ready"
    /\ ss.session_id = loc.sid
    /\ ss.session_token = loc.tok
    /\ calls[Len(calls) - 1].op = "streaming.create_token"

\* C3: every session is settled at most once; a stored token, and the token of a
\* live viewer, belong to a session whose settle sleep has completed exactly once;
\* the settle sleep directly follows a successful token request
C3_SettleBeforeReady ==
    /\ \A n \in 1..MaxSessions : settled[n] <= 1
    /\ Truthy(ss.session_token)
         => ss.session_id.kind = "sid" /\ settled[ss.session_id.n] = 1
    /\ viewer.mode = "live"
         => /\ viewer.token = ss.session_token
            /\ settled[viewer.session_id.n] = 1
    /\ \A i \in DOMAIN calls :
         calls[i] = Sleep("1.0")
           => /\ i > 1
              /\ calls[i - 1].op = "streaming.create_token"
              /\ calls[i - 1].status = "ok"
    /\ pc = "store" => calls # <<>> /\ calls[Len(calls)] = Sleep("1.0")

\* the live viewer of a session that has just been started
C3_Witness ==
    /\ viewer.mode = "live"
    /\ attempt = "ready"
    /\ settled[viewer.session_id.n] = 1
    /\ \E i \in DOMAIN calls : calls[i] = Sleep("1.0")

\* the descriptor a body carries under key, None when there is none
DescriptorUnder(body, key) ==
    LET d == Get(DataOf(body), key)
    IN  IF d.kind = "dict" THEN Get(d, "sdp") ELSE None

\* the body has no session id, or no descriptor under either key
Malformed(body) ==
    \/ ~Truthy(Get(DataOf(body), "session_id"))
    \/ ~Truthy(DescriptorUnder(body, "offer")) /\ ~Truthy(DescriptorUnder(body, "sdp"))

\* C4: after a streaming.new response with no session id, or with no descriptor
\* under either key, the run is over and failed: the create request is the only
\* one of its kind and the last request, and there is no token request
C4_MalformedAborts ==
    (resp # None /\ Malformed(resp))
      => /\ pc = "end"
         /\ attempt = "failed"
         /\ calls[Len(calls)].op = "streaming.new"
         /\ Cardinality({i \in DOMAIN calls : calls[i].op = "streaming.new"}) = 1
         /\ \A i \in DOMAIN calls : calls[i].op # "streaming.create_token"

\* a response with a session id and no descriptor
C4_Witness ==
    /\ resp # None
    /\ Truthy(Get(DataOf(resp), "session_id"))
    /\ ~Truthy(DescriptorUnder(resp, "offer")) /\ ~Truthy(DescriptorUnder(resp, "sdp"))
    /\ pc = "end"

\* C5: after a Start whose create or token step failed, the Ready guard is false
C5_FailedNotReady ==
    (pc = "end" /\ attempt = "failed")
      => ~(Truthy(ss.session_id) /\ Truthy(ss.session_token) /\ Truthy(ss.offer_sdp))

C7_FailedDispatchKeepsSession ==
    [][(Issued("streaming.task") /\ calls'[Len(calls')].status # "ok")
         => /\ SessionFields(ss') = SessionFields(ss)
            /\ Truthy(ss'.session_id) /\ Truthy(ss'.session_token) /\ Truthy(ss'.offer_sdp)
            /\ "test1" \in shown']_vars

\* a dispatch failed on a transport error and the session is still Ready
C7_Witness ==
    /\ sent = "failed"
    /\ calls[Len(calls)].status = "transport_error"
    /\ Truthy(ss.session_id) /\ Truthy(ss.session_token) /\ Truthy(ss.offer_sdp)

\* C8: whatever the status of the stop request, the handler goes on: the create
\* request is the next statement (pc = "new") or has been issued after the stop
C8_StopNeverPropagates ==
    \A j \in DOMAIN calls :
      calls[j].op = "streaming.stop"
        => \/ pc = "new" /\ attempt = "running"
           \/ \E i \in DOMAIN calls : i > j /\ calls[i].op = "streaming.new"

\* a stop request that failed, followed by the create request
C8_Witness ==
    \E j, i \in DOMAIN calls :
      /\ j < i
      /\ calls[j].op = "streaming.stop" /\ calls[j].status # "ok"
      /\ calls[i].op = "streaming.new"

\* C9: every streaming.task request names the stored session and token, is sent
\* with the Ready guard true and carries a text that is not blank; a Test run
\* with the guard false or, for Test-2, a blank transcript issues no request
C9_DispatchGuarded ==
    /\ \A i \in DOMAIN calls :
         calls[i].op = "streaming.task"
           => /\ Truthy(ss.session_id) /\ Truthy(ss.session_token) /\ Truthy(ss.offer_sdp)
              /\ calls[i].sid = ss.session_id
              /\ calls[i].token = ss.session_token
              /\ Strip(calls[i].text) # <<>>
    /\ (pc = "end" /\ event \in {"test1", "test2"}
        /\ ~(Truthy(ss.session_id) /\ Truthy(ss.session_token) /\ Truthy(ss.offer_sdp)))
         => calls = <<>>
    /\ (pc = "end" /\ event = "test2" /\ Strip(ss.last_text) = <<>>) => calls = <<>>

\* Test-2 on a Ready session with a transcript of whitespace: no request
C9_Witness ==
    /\ pc = "end" /\ event = "test2"
    /\ Truthy(ss.session_id) /\ Truthy(ss.session_token) /\ Truthy(ss.offer_sdp)
    /\ ss.last_text # <<>> /\ Strip(ss.last_text) = <<>>
    /\ calls = <<>>

\* C10: the relay list new_session returns is a non-empty list: ice_servers2 when
\* that is a non-empty list, else ice_servers when that is one, else exactly the
\* one default entry
C10_RelayConfig ==
    pc = "returned"
      => LET ice2 == Get(DataOf(resp), "ice_servers2")
             ice1 == Get(DataOf(resp), "ice_servers")
             out  == Get(loc.rtc_config, "iceServers")
             Usable(v) == v.kind = "list" /\ v.val # <<>>
         IN  /\ out.kind = "list" /\ out.val # <<>>
             /\ Usable(ice2) => out = ice2
             /\ (~Usable(ice2) /\ Usable(ice1)) => out = ice1
             /\ (~Usable(ice2) /\ ~Usable(ice1))
                  => out = List(DEFAULT_ICE) /\ Len(out.val) = 1

\* a body whose ice_servers2 is an empty list and whose ice_servers is missing
C10_Witness ==
    /\ pc = "returned"
    /\ Get(DataOf(resp), "ice_servers2") = List(<<>>)
    /\ Get(DataOf(resp), "ice_servers") = None
    /\ Get(loc.rtc_config, "iceServers") = List(DEFAULT_ICE)

\* the other of the two alternate key names
OtherKey(key) == IF key = "offer" THEN "sdp" ELSE "offer"

\* C11: for a response with a session id whose descriptor is carried by one of
\* the keys offer and sdp, whatever the other key holds (absent, empty, present
\* without a usable descriptor), new_session returns that descriptor
C11_KeyNameIndependence ==
    (pc \in {"raised", "returned"} /\ Truthy(Get(DataOf(resp), "session_id")))
      => \A key \in {"offer", "sdp"} :
           (Truthy(DescriptorUnder(resp, key)) /\ ~Truthy(DescriptorUnder(resp, OtherKey(key))))
             => pc = "returned" /\ loc.offer_sdp = DescriptorUnder(resp, key)

\* C12: without a configured API key every run stops at the key check: no
\* request is ever issued, the service never creates a session, and no handler
\* is entered, whatever UI events follow
C12_NoKeyNoRemoteCall ==
    ~api_key
      => /\ calls = <<>>
         /\ next_sid = 1
         /\ pc \in {"idle", "end"}

\* a run without a key that has halted
C12_Witness ==
    /\ ~api_key
    /\ pc = "end"
    /\ shown = {}
    /\ calls = <<>>

\* C13: the step of a run that executes the voice section completes for every
\* clip and every backend outcome: no exception leaves the transcription block,
\* the stored session fields are unchanged, the transcript box is rendered and
\* the actions section follows (it is the next position, or it has been rendered)
C13_TranscriptionNeverRaises ==
    [][(stt = "none" /\ stt' # "none")
         => /\ stt' \in {"no_clip", "no_backend", "backend_error", "empty_text", "text"}
            /\ SessionFields(ss') = SessionFields(ss)
            /\ "transcript" \in shown'
            /\ pc' \in {"actions", "end"}
            /\ pc' = "end" => {"test1", "test2"} \subseteq shown']_vars

\* the backend raised on a clip while a session is stored: the run ended with the
\* fallback text in the transcript box and the Test buttons on the page
C13_Witness ==
    /\ stt = "backend_error"
    /\ pc = "end"
    /\ Truthy(ss.session_id) /\ Truthy(ss.session_token)
    /\ ss.last_text = FALLBACK_TEXT
    /\ {"transcript", "test1", "test2"} \subseteq shown

\* the text came from the fallback of line 294: the fallback sentence is not among
\* the texts the user types (Texts) or the recogniser returns
FromFallback(text) == text = FALLBACK_TEXT

\* C14: no streaming.task request carries a text that originates from the
\* fallback substituted when there is no recognition result
C14_FallbackNeverDispatched ==
    \A i \in DOMAIN calls :
      calls[i].op = "streaming.task" => ~FromFallback(calls[i].text)

\* the relay configurations a create response for session n yields: its own
\* relays, or the default entry
RelayConfigsOf(n) ==
    {Dict({<<"iceServers", r>>}) : r \in {Relays(n, "turn:a"), List(DEFAULT_ICE)}}

\* C15: either none of the stored session fields is set, or the stored token
\* is the one the token call issues for the stored session id, and the stored
\* descriptor and relay configuration are those of the create response that
\* returned that session id
C15_SessionFieldsConsistent ==
    \/ SessionFields(ss) = <<None, None, None, None>>
    \/ /\ ss.session_id.kind = "sid"
       /\ ss.session_token = Tok(ss.session_id.n)
       /\ ss.offer_sdp = Sdp(ss.session_id.n)
       /\ ss.rtc_config \in RelayConfigsOf(ss.session_id.n)

\* between UI events, after a Start that stored session 1 and a later Start that
\* failed once the service had created session 2: session 1 is still stored whole
C15_Witness ==
    /\ pc = "idle"
    /\ next_sid = 3
    /\ ss.session_id = Sid(1)
    /\ ss.session_token = Tok(1)
    /\ ss.offer_sdp = Sdp(1)

\* C16: a create request is issued only when every session the service has
\* created, a session whose token request failed included, has had a stop
\* request sent for it
C16_NoLeakedSession ==
    [][Issued("streaming.new") => unstopped = {}]_vars

\* the requests of the current run with operation op
Requests(op) == {i \in DOMAIN calls : calls[i].op = op}

\* C17: in the run of one event there is at most one stop, one create and one
\* token request, and at most two speak requests, no two of them under the same
\* convention; a request that failed is not issued again; a Start run issues no
\* speak request and a dispatch run nothing but speak requests; the run issues
\* at most three requests
C17_NoRetries ==
    /\ Cardinality(Requests("streaming.stop")) <= 1
    /\ Cardinality(Requests("streaming.new")) <= 1
    /\ Cardinality(Requests("streaming.create_token")) <= 1
    /\ Cardinality(Requests("streaming.task")) <= 2
    /\ \A i, j \in Requests("streaming.task") : calls[i].auth = calls[j].auth => i = j
    /\ \A i, j \in DOMAIN calls :
         (i < j /\ calls[i].op # "sleep" /\ calls[i].status # "ok")
           => calls[j].op # calls[i].op
    /\ event = "start_btn" => Requests("streaming.task") = {}
    /\ event \in {"test1", "test2"}
         => Requests("streaming.task") = {i \in DOMAIN calls : calls[i].op # "sleep"}
    /\ event = "none" => calls = <<>>
    /\ Cardinality({i \in DOMAIN calls : calls[i].op # "sleep"}) <= 3

\* a Start run on a stored session whose stop request and token request failed:
\* it ended after one request of each kind
C17_Witness ==
    /\ pc = "end"
    /\ event = "start_btn"
    /\ Len(calls) = 4
    /\ calls[1].op = "streaming.stop" /\ calls[1].status # "ok"
    /\ calls[3].op = "streaming.new"
    /\ calls[4].op = "streaming.create_token" /\ calls[4].status # "ok"

\* the transcription block has run on a clip in the current run
Transcribed == stt \in {"no_backend", "backend_error", "empty_text", "text"}

\* C18: a run triggered by Start or by a dispatch button does not transcribe the
\* recorder's clip again; the run that transcribes a clip is the one in which the
\* recording stopped, and with a session Ready it forwards the text to the session
C18_TranscribedOnce ==
    /\ event \in {"start_btn", "test1", "test2"} => ~Transcribed
    /\ (pc = "end" /\ event = "none" /\ Transcribed /\ ReadyGuard)
         => \E i \in DOMAIN calls :
              calls[i].op = "streaming.task" /\ calls[i].text = Strip(ss.last_text)

====
